---- MODULE Spec2Model ----
(***************************************************************************)
(* Model of apps/occt-service/occt_cli/main.cpp: the STEP-to-mesh export   *)
(* tool.  main() is one sequential run; pc is its position.                *)
(*                                                                         *)
(* Numbers.  A double read from text (stod) or written as a literal is a   *)
(* decimal [m, x] standing for m * 10^x.  A coordinate is the integer      *)
(* number of thousandths it stands for; the kernel's raw coordinates are   *)
(* integers.  Differences, products, min and max of these are exact in     *)
(* Spec.  A unit normal is kept exactly, each component as [n, r] standing *)
(* for n / sqrt(r).  Where a claim depends on binary64 rounding (the       *)
(* product with the scale 0.001) the specification SpecUnits computes the  *)
(* product bit for bit.                                                    *)
(***************************************************************************)
EXTENDS Integers, Sequences, FiniteSets, TLC

VARIABLES
    pc,          \* position of main()
    argv,        \* argv[1..argc-1]; argv[0], the program name, is never read
    i,           \* the option loop's index (line 98)
    filePath, deflection, angle, unit,
    shape,       \* reader.OneShape()
    scale, mesh, bounds,
    f,           \* position of the face explorer (line 141)
    t,           \* the triangle loop's index (line 153)
    tri,         \* the triangle body's locals v1, v2, v3, normal and the next call
    w,           \* the index of the loops that write a list (lines 196-217)
    out,         \* the text written to std::cout
    err,         \* what was written to std::cerr
    exitCode,    \* main's return value, -1 while it runs
    twin         \* SpecUnits: two runs on the same faces, one per unit

vars == <<pc, argv, i, filePath, deflection, angle, unit, shape, scale, mesh,
          bounds, f, t, tri, w, out, err, exitCode, twin>>

(***************************************************************************)
(* Bounds of the model.                                                    *)
(***************************************************************************)
\* Option tokens after the file path, in Spec.
MaxArgs == 2
\* Option tokens after the file path, in SpecArgs.
MaxArgv == 4
\* Faces of a shape.
MaxFaces == 2

(***************************************************************************)
(* Decimal numbers and std::stod.                                          *)
(***************************************************************************)
RECURSIVE Pow10(_)
Pow10(n) == IF n = 0 THEN 1 ELSE 10 * Pow10(n - 1)

RECURSIVE Digits(_)
Digits(n) == IF n < 10 THEN 1 ELSE 1 + Digits(n \div 10)

Abs(n) == IF n < 0 THEN -n ELSE n

\* m * 10^x with m not a multiple of 10 (0 is [0, 0]).
RECURSIVE Dec(_, _)
Dec(m, x) ==
    IF m = 0 THEN [m |-> 0, x |-> 0]
    ELSE IF m % 10 = 0 THEN Dec(m \div 10, x + 1)
    ELSE [m |-> m, x |-> x]

\* The characters of the tokens a command line is drawn from.
Chars(token) ==
    CASE token = "--deflection" ->
           <<"-", "-", "d", "e", "f", "l", "e", "c", "t", "i", "o", "n">>
      [] token = "--angle" -> <<"-", "-", "a", "n", "g", "l", "e">>
      [] token = "--unit" -> <<"-", "-", "u", "n", "i", "t">>
      [] token = "0.3" -> <<"0", ".", "3">>
      [] token = "0.7x" -> <<"0", ".", "7", "x">>
      [] token = " -5" -> <<" ", "-", "5">>
      [] token = "1e999" -> <<"1", "e", "9", "9", "9">>
      [] token = "abc" -> <<"a", "b", "c">>
      [] token = "m" -> <<"m">>
      [] token = "" -> <<>>
      [] token = "model.step" ->
           <<"m", "o", "d", "e", "l", ".", "s", "t", "e", "p">>

IsDigit(c) == c \in {"0", "1", "2", "3", "4", "5", "6", "7", "8", "9"}

DigitVal(c) ==
    CASE c = "0" -> 0 [] c = "1" -> 1 [] c = "2" -> 2 [] c = "3" -> 3
      [] c = "4" -> 4 [] c = "5" -> 5 [] c = "6" -> 6 [] c = "7" -> 7
      [] c = "8" -> 8 [] c = "9" -> 9

RECURSIVE SkipSpace(_, _)
SkipSpace(cs, j) ==
    IF j <= Len(cs) /\ cs[j] = " " THEN SkipSpace(cs, j + 1) ELSE j

\* The digits from cs[j] on: where they end, val extended by them, how many.
RECURSIVE ScanDigits(_, _, _, _)
ScanDigits(cs, j, val, n) ==
    IF j <= Len(cs) /\ IsDigit(cs[j])
    THEN ScanDigits(cs, j + 1, val * 10 + DigitVal(cs[j]), n + 1)
    ELSE [pos |-> j, val |-> val, n |-> n]

\* Largest decimal exponent of a finite double, smallest of a nonzero one.
DBL_MAX_10_EXP == 308
DBL_MIN_10_EXP == -324

\* std::stod(const char*): strtod on the longest prefix that is a decimal
\* floating-point number (leading white space, sign, digits with an optional
\* point, optional exponent); std::invalid_argument when no digits were found,
\* std::out_of_range when the value is out of a double's range (decided here
\* by the value's decimal order of magnitude).  What follows
\* the number is ignored: stod is called without the position argument.
\* (inf, nan and hexadecimal text do not occur in the tokens of the model.)
Stod(cs) ==
    LET j0 == SkipSpace(cs, 1)
        signed == j0 <= Len(cs) /\ cs[j0] \in {"-", "+"}
        neg == signed /\ cs[j0] = "-"
        j1 == IF signed THEN j0 + 1 ELSE j0
        ip == ScanDigits(cs, j1, 0, 0)
        dot == ip.pos <= Len(cs) /\ cs[ip.pos] = "."
        fp == IF dot THEN ScanDigits(cs, ip.pos + 1, ip.val, 0)
              ELSE [pos |-> ip.pos, val |-> ip.val, n |-> 0]
        je == fp.pos
        e1 == je <= Len(cs) /\ cs[je] \in {"e", "E"}
        esigned == e1 /\ je + 1 <= Len(cs) /\ cs[je + 1] \in {"-", "+"}
        jx == IF esigned THEN je + 2 ELSE je + 1
        ex == IF e1 THEN ScanDigits(cs, jx, 0, 0)
              ELSE [pos |-> je, val |-> 0, n |-> 0]
        exp10 == IF ex.n = 0 THEN 0
                 ELSE IF esigned /\ cs[je + 1] = "-" THEN -ex.val ELSE ex.val
        mant == IF neg THEN -fp.val ELSE fp.val
        top == Digits(fp.val) + exp10 - fp.n
    IN  IF ip.n + fp.n = 0 THEN [throws |-> TRUE]
        ELSE IF fp.val # 0 /\ (top > DBL_MAX_10_EXP + 1 \/ top < DBL_MIN_10_EXP)
        THEN [throws |-> TRUE]
        ELSE [throws |-> FALSE, value |-> Dec(mant, exp10 - fp.n)]

\* readDouble: value is one of argv's strings (never a null pointer here) or
\* the null pointer "nullptr".
readDouble(value, fallback) ==
    IF value = "nullptr" THEN fallback
    ELSE LET r == Stod(Chars(value))
         IN  IF r.throws THEN fallback ELSE r.value

\* unitScale that knows "mm" and takes every other unit for metres.
unitScaleMetresByDefault(u) == IF u = "mm" THEN Dec(1, -3) ELSE Dec(1, 0)

\* Lines 45-50.
unitScale(u) == IF u = "m" THEN Dec(1, 0) ELSE Dec(1, -3)

(***************************************************************************)
(* Vectors, bounds and the mesh buffers.                                   *)
(***************************************************************************)
Vec3(x, y, z) == [x |-> x, y |-> y, z |-> z]

\* std::numeric_limits<double>::max(): the largest number of the model stands
\* for it; lowest() is its negation.
DBL_MAX == 2147483647

Min(a, b) == IF b < a THEN b ELSE a
Max(a, b) == IF a < b THEN b ELSE a

initialBounds ==
    [min |-> Vec3(DBL_MAX, DBL_MAX, DBL_MAX),
     max |-> Vec3(-DBL_MAX, -DBL_MAX, -DBL_MAX)]

updateBounds(b, point) ==
    [min |-> Vec3(Min(b.min.x, point.x), Min(b.min.y, point.y),
                  Min(b.min.z, point.z)),
     max |-> Vec3(Max(b.max.x, point.x), Max(b.max.y, point.y),
                  Max(b.max.z, point.z))]

subtract(a, b) == Vec3(a.x - b.x, a.y - b.y, a.z - b.z)

cross(a, b) ==
    Vec3(a.y * b.z - a.z * b.y, a.z * b.x - a.x * b.z, a.x * b.y - a.y * b.x)

RECURSIVE GCD(_, _)
GCD(a, b) == IF b = 0 THEN a ELSE GCD(b, a % b)

\* A component n / sqrt(r) of a unit vector; 0 is [0, 1].
Comp(n, r) == [n |-> n, r |-> r]

\* value / |value|, exactly: with g the greatest common divisor of the
\* components, value / |value| = (value / g) / |value / g|.  The components
\* of value are whole millionths, so its length is at most 1e-12 only when it
\* is 0.
normalize(value) ==
    IF value.x = 0 /\ value.y = 0 /\ value.z = 0
    THEN Vec3(Comp(0, 1), Comp(0, 1), Comp(0, 1))
    ELSE LET g == GCD(GCD(Abs(value.x), Abs(value.y)), Abs(value.z))
             x == value.x \div g
             y == value.y \div g
             z == value.z \div g
             r == x * x + y * y + z * z
         IN  Vec3(Comp(x, r), Comp(y, r), Comp(z, r))

\* normal.x *= -1.0 and so on (lines 169-171).
negate(normal) ==
    Vec3(Comp(-normal.x.n, normal.x.r), Comp(-normal.y.n, normal.y.r),
         Comp(-normal.z.n, normal.z.r))

emptyMesh == [positions |-> <<>>, normals |-> <<>>, indices |-> <<>>]

\* appendVertex without normals.push_back(normal.z).
appendVertexShortNormal(m, point, normal) ==
    [positions |-> m.positions \o <<point.x, point.y, point.z>>,
     normals |-> m.normals \o <<normal.x, normal.y>>,
     indices |-> Append(m.indices, Len(m.indices))]

\* appendVertex that gives a point already in the mesh the index it has.
appendVertexWelded(m, point, normal) ==
    LET same == {n \in 1..Len(m.indices) :
                    /\ m.positions[3 * n - 2] = point.x
                    /\ m.positions[3 * n - 1] = point.y
                    /\ m.positions[3 * n] = point.z}
        index == IF same = {} THEN Len(m.indices)
                 ELSE m.indices[CHOOSE n \in same : \A o \in same : n <= o]
    IN  [positions |-> m.positions \o <<point.x, point.y, point.z>>,
         normals |-> m.normals \o <<normal.x, normal.y, normal.z>>,
         indices |-> Append(m.indices, index)]

\* The sizes of the model are far below 2^32: the cast to unsigned int keeps
\* the size.
appendVertex(m, point, normal) ==
    [positions |-> m.positions \o <<point.x, point.y, point.z>>,
     normals |-> m.normals \o <<normal.x, normal.y, normal.z>>,
     indices |-> Append(m.indices, Len(m.indices))]

(***************************************************************************)
(* The kernel's answers: shapes, faces and their triangulations.           *)
(***************************************************************************)
Pnt(x, y, z) == [x |-> x, y |-> y, z |-> z]

\* gp_Pnt::Transformed under a location that is a translation.
Transformed(p, trsf) == Pnt(p.x + trsf.x, p.y + trsf.y, p.z + trsf.z)

NullTriangulation == [isNull |-> TRUE]

Triangulation(nodes, triangles) ==
    [isNull |-> FALSE, nodes |-> nodes, triangles |-> triangles]

Face(triangulation, location, orientation) ==
    [triangulation |-> triangulation, location |-> location,
     orientation |-> orientation]

\* The faces a shape is drawn from: without a triangulation, with an empty
\* one, forward, reversed and moved, and with a zero-area triangle.
FaceCatalog ==
    { Face(NullTriangulation, Pnt(0, 0, 0), "TopAbs_FORWARD"),
      Face(Triangulation(<<Pnt(0, 0, 0)>>, <<>>), Pnt(0, 0, 0),
           "TopAbs_REVERSED"),
      Face(Triangulation(<<Pnt(0, 0, 0), Pnt(9, 0, 0), Pnt(0, 1, 0)>>,
                         <<<<1, 2, 3>>>>),
           Pnt(0, 0, 0), "TopAbs_FORWARD"),
      Face(Triangulation(<<Pnt(0, 0, 0), Pnt(0, 2, 0), Pnt(0, 0, 1),
                           Pnt(1, 1, 1)>>,
                         <<<<1, 2, 3>>, <<2, 4, 3>>>>),
           Pnt(-1, 0, 3), "TopAbs_REVERSED"),
      Face(Triangulation(<<Pnt(1, 1, 1), Pnt(2, 2, 2), Pnt(3, 3, 3)>>,
                         <<<<1, 2, 3>>>>),
           Pnt(0, 0, 0), "TopAbs_REVERSED") }

RECURSIVE SeqsUpTo(_, _)
SeqsUpTo(S, n) ==
    IF n = 0 THEN {<<>>}
    ELSE LET shorter == SeqsUpTo(S, n - 1)
         IN  shorter \cup {Append(s, e) : s \in shorter, e \in S}

NullShape == [isNull |-> TRUE]

Shapes == {[isNull |-> FALSE, faces |-> fs] : fs \in SeqsUpTo(FaceCatalog, MaxFaces)}

(***************************************************************************)
(* The command lines.                                                      *)
(***************************************************************************)
OptionTokens ==
    {"--deflection", "--angle", "--unit", "0.3", "0.7x", " -5", "1e999",
     "abc", "m", ""}

PipelineTokens == {"--unit", "m", "0.3"}

CommandLines(tokens, n) ==
    {<<>>} \cup {<<"model.step">> \o opts : opts \in SeqsUpTo(tokens, n)}

argc == Len(argv) + 1

(***************************************************************************)
(* main().                                                                 *)
(***************************************************************************)
NoTri == [k |-> 0]
NoTwin == [on |-> FALSE]

InitRun ==
    /\ pc = "start"
    /\ i = 0
    /\ filePath = ""
    /\ deflection = Dec(0, 0)
    /\ angle = Dec(0, 0)
    /\ unit = ""
    /\ shape = NullShape
    /\ scale = Dec(0, 0)
    /\ mesh = emptyMesh
    /\ bounds = initialBounds
    /\ f = 0
    /\ t = 0
    /\ tri = NoTri
    /\ w = 0
    /\ out = <<>>
    /\ err = <<>>
    /\ exitCode = -1

Init ==
    /\ argv \in CommandLines(PipelineTokens, MaxArgs)
    /\ InitRun
    /\ twin = NoTwin

\* Where a run would go on after a check.
Following(p) ==
    CASE p = "start" -> "options"
      [] p = "read" -> "transfer"
      [] p = "transfer" -> "mesh"
      [] p = "mesh" -> "face"
      [] p = "empty" -> "write"

\* The message without the return.
FailWithoutReturn(message) ==
    /\ err' = Append(err, message)
    /\ exitCode' = exitCode
    /\ pc' = Following(pc)

\* return 1 after a message on std::cerr.
Fail(message) ==
    /\ err' = Append(err, message)
    /\ exitCode' = 1
    /\ pc' = "exit"

\* Lines 88-96.
ArgCheck ==
    /\ pc = "start"
    /\ IF argc < 2
       THEN /\ Fail("Usage: occt_step_export <file.step> [--deflection 0.2] [--angle 0.5] [--unit mm]\n")
            /\ UNCHANGED <<filePath, deflection, angle, unit, i>>
       ELSE /\ filePath' = argv[1]
            /\ deflection' = Dec(2, -1)
            /\ angle' = Dec(5, -1)
            /\ unit' = "mm"
            /\ i' = 2
            /\ pc' = "options"
            /\ UNCHANGED <<err, exitCode>>
    /\ UNCHANGED <<argv, shape, scale, mesh, bounds, f, t, tri, w, out, twin>>

\* One pass of the loop of lines 98-114, or its end.
ParseOption ==
    /\ pc = "options"
    /\ IF i < argc
       THEN /\ IF argv[i] = "--deflection" /\ i + 1 < argc
               THEN /\ deflection' = readDouble(argv[i + 1], deflection)
                    /\ i' = i + 2
                    /\ UNCHANGED <<angle, unit>>
               ELSE IF argv[i] = "--angle" /\ i + 1 < argc
               THEN /\ angle' = readDouble(argv[i + 1], angle)
                    /\ i' = i + 2
                    /\ UNCHANGED <<deflection, unit>>
               ELSE IF argv[i] = "--unit" /\ i + 1 < argc
               THEN /\ unit' = argv[i + 1]
                    /\ i' = i + 2
                    /\ UNCHANGED <<deflection, angle>>
               ELSE /\ i' = i + 1
                    /\ UNCHANGED <<deflection, angle, unit>>
            /\ pc' = pc
       ELSE /\ pc' = "read"
            /\ UNCHANGED <<i, deflection, angle, unit>>
    /\ UNCHANGED <<argv, filePath, shape, scale, mesh, bounds, f, t, tri, w,
                   out, err, exitCode, twin>>

\* Lines 116-120: the kernel reads the file, or fails to.
ReadFile ==
    /\ pc = "read"
    /\ \E done \in BOOLEAN :
         IF done THEN pc' = "transfer" /\ UNCHANGED <<err, exitCode>>
         ELSE Fail("Failed to read STEP file.\n")
    /\ UNCHANGED <<argv, i, filePath, deflection, angle, unit, shape, scale,
                   mesh, bounds, f, t, tri, w, out, twin>>

\* Lines 122-127: the shape the kernel transfers, a null one included.
Transfer ==
    /\ pc = "transfer"
    /\ \E sh \in Shapes \cup {NullShape} :
         /\ shape' = sh
         /\ IF sh.isNull THEN Fail("STEP file has no shapes.\n")
            ELSE pc' = "mesh" /\ UNCHANGED <<err, exitCode>>
    /\ UNCHANGED <<argv, i, filePath, deflection, angle, unit, scale, mesh,
                   bounds, f, t, tri, w, out, twin>>

\* Lines 129-141: the kernel meshes the shape, or fails to; then the buffers,
\* the scale and the bounds are set up and the face explorer starts.
Mesh ==
    /\ pc = "mesh"
    /\ \E done \in BOOLEAN :
         IF done
         THEN /\ mesh' = emptyMesh
              /\ scale' = unitScale(unit)
              /\ bounds' = initialBounds
              /\ f' = 1
              /\ pc' = "face"
              /\ UNCHANGED <<err, exitCode>>
         ELSE /\ Fail("Meshing failed.\n")
              /\ UNCHANGED <<mesh, scale, bounds, f>>
    /\ UNCHANGED <<argv, i, filePath, deflection, angle, unit, shape, t, tri,
                   w, out, twin>>

\* A decimal scale as whole thousandths.
Thousandths(s) == s.m * Pow10(s.x + 3)

\* p.X() * scale and so on (lines 163-165): a raw point in thousandths.
Scaled(p, s) ==
    Vec3(p.x * Thousandths(s), p.y * Thousandths(s), p.z * Thousandths(s))

\* Vertices with the second and third corner exchanged.
VerticesSwapped(face, triangle, s) ==
    [n \in 1..3 |->
        Scaled(Transformed(face.triangulation.nodes[triangle[<<1, 3, 2>>[n]]],
                           face.location), s)]

\* Lines 159-165: the three vertices of a triangle, in the order of its nodes.
Vertices(face, triangle, s) ==
    [n \in 1..3 |->
        Scaled(Transformed(face.triangulation.nodes[triangle[n]],
                           face.location), s)]

\* FaceNormal that leaves the normal of a reversed face as computed.
FaceNormalUnflipped(face, v) ==
    normalize(cross(subtract(v[2], v[1]), subtract(v[3], v[1])))

\* Lines 151, 167-172.
FaceNormal(face, v) ==
    LET normal == normalize(cross(subtract(v[2], v[1]), subtract(v[3], v[1])))
    IN  IF face.orientation = "TopAbs_REVERSED" THEN negate(normal)
        ELSE normal

\* Lines 141-147, 153: the face explorer at a face, or past the last one.
NextFace ==
    /\ pc = "face"
    /\ IF f <= Len(shape.faces)
       THEN IF shape.faces[f].triangulation.isNull
            THEN /\ f' = f + 1
                 /\ UNCHANGED <<pc, t>>
            ELSE /\ t' = 1
                 /\ pc' = "triangle"
                 /\ UNCHANGED f
       ELSE /\ pc' = "empty"
            /\ UNCHANGED <<f, t>>
    /\ UNCHANGED <<argv, i, filePath, deflection, angle, unit, shape, scale,
                   mesh, bounds, tri, w, out, err, exitCode, twin>>

\* Lines 153-172: the triangle loop at a triangle, whose vertices and normal
\* it computes, or past the last one of the face.
Triangle ==
    /\ pc = "triangle"
    /\ LET face == shape.faces[f]
       IN  IF t <= Len(face.triangulation.triangles)
           THEN LET v == Vertices(face, face.triangulation.triangles[t], scale)
                IN  /\ tri' = [k |-> 1, v |-> v, normal |-> FaceNormal(face, v)]
                    /\ pc' = "append"
                    /\ UNCHANGED f
           ELSE /\ f' = f + 1
                /\ pc' = "face"
                /\ UNCHANGED tri
    /\ UNCHANGED <<argv, i, filePath, deflection, angle, unit, shape, scale,
                   mesh, bounds, t, w, out, err, exitCode, twin>>

\* Lines 174-176: one call of appendVertex.
Append1 ==
    /\ pc = "append"
    /\ mesh' = appendVertex(mesh, tri.v[tri.k], tri.normal)
    /\ tri' = [tri EXCEPT !.k = tri.k + 1]
    /\ pc' = IF tri.k = 3 THEN "bounds" ELSE "append"
    /\ UNCHANGED <<argv, i, filePath, deflection, angle, unit, shape, scale,
                   bounds, f, t, w, out, err, exitCode, twin>>

\* One call of updateBounds for a triangle.
foldBoundsFirstOnly(b, v) == updateBounds(b, v[1])

\* Lines 178-180.
foldBounds(b, v) == updateBounds(updateBounds(updateBounds(b, v[1]), v[2]), v[3])

\* Lines 178-181: the three calls of updateBounds, and the next triangle.
UpdateBounds ==
    /\ pc = "bounds"
    /\ bounds' = foldBounds(bounds, tri.v)
    /\ tri' = NoTri
    /\ t' = t + 1
    /\ pc' = "triangle"
    /\ UNCHANGED <<argv, i, filePath, deflection, angle, unit, shape, scale,
                   mesh, f, w, out, err, exitCode, twin>>

\* No check at all.
noMeshDataUnchecked(m) == FALSE

\* Line 184.
noMeshData(m) == m.positions = <<>>

\* Lines 184-187.
EmptyCheck ==
    /\ pc = "empty"
    /\ IF noMeshData(mesh) THEN Fail("No mesh data extracted.\n")
       ELSE pc' = "write" /\ UNCHANGED <<err, exitCode>>
    /\ UNCHANGED <<argv, i, filePath, deflection, angle, unit, shape, scale,
                   mesh, bounds, f, t, tri, w, out, twin>>

(***************************************************************************)
(* The document.  out is the text written to std::cout: each string       *)
(* inserted extends the text, and a number inserted (a double or an        *)
(* unsigned int, which operator<< turns into text) is kept as an item.     *)
(***************************************************************************)
Str(text) == [str |-> text]
Dbl(x) == [dbl |-> x]
UInt(n) == [uint |-> n]

IsStr(item) == "str" \in DOMAIN item

\* std::cout << item after the text o.
Insert(o, item) ==
    IF o # <<>> /\ IsStr(o[Len(o)]) /\ IsStr(item)
    THEN [o EXCEPT ![Len(o)] = Str(o[Len(o)].str \o item.str)]
    ELSE Append(o, item)

\* The insertions of the first n of items, in their order.
RECURSIVE InsertAll(_, _, _)
InsertAll(o, items, n) ==
    IF n = 0 THEN o ELSE Insert(InsertAll(o, items, n - 1), items[n])

\* Lines 189-195.
WriteHead(b) ==
    << Str("{"),
       Str("\"bounds\":{\"min\":["), Dbl(b.min.x), Str(","), Dbl(b.min.y),
       Str(","), Dbl(b.min.z), Str("],\"max\":["), Dbl(b.max.x), Str(","),
       Dbl(b.max.y), Str(","), Dbl(b.max.z), Str("]},"),
       Str("\"meshes\":[{"),
       Str("\"id\":\"mesh-0\","),
       Str("\"positions\":[") >>

\* Lines 189-195: the document up to the start of the positions.
Write ==
    /\ pc = "write"
    /\ out' = InsertAll(out, WriteHead(bounds), Len(WriteHead(bounds)))
    /\ w' = 0
    /\ pc' = "positions"
    /\ UNCHANGED <<argv, i, filePath, deflection, angle, unit, shape, scale,
                   mesh, bounds, f, t, tri, err, exitCode, twin>>

\* The comma after every element.
WriteElementThenComma(o, n, item) == Insert(Insert(o, item), Str(","))

\* if (i > 0) { std::cout << ","; } std::cout << list[i];
WriteElement(o, n, item) ==
    Insert(IF n > 0 THEN Insert(o, Str(",")) ELSE o, item)

\* The item a number of a list is written as.
Number(kind, x) == IF kind = "unsigned int" THEN UInt(x) ELSE Dbl(x)

\* One pass of a loop of lines 196-217 over list, or its end: what is written
\* after it, and where the run goes on.
WriteLoop(list, kind, after, next) ==
    IF w < Len(list)
    THEN /\ out' = WriteElement(out, w, Number(kind, list[w + 1]))
         /\ w' = w + 1
         /\ pc' = pc
    ELSE /\ out' = InsertAll(out, after, Len(after))
         /\ w' = 0
         /\ pc' = next

\* Lines 196-218.
WriteLists ==
    /\ \/ /\ pc = "positions"
          /\ WriteLoop(mesh.positions, "double",
                       <<Str("],"), Str("\"normals\":[")>>, "normals")
       \/ /\ pc = "normals"
          /\ WriteLoop(mesh.normals, "double",
                       <<Str("],"), Str("\"indices\":[")>>, "indices")
       \/ /\ pc = "indices"
          /\ WriteLoop(mesh.indices, "unsigned int", <<Str("]")>>, "tail")
    /\ UNCHANGED <<argv, i, filePath, deflection, angle, unit, shape, scale,
                   mesh, bounds, f, t, tri, err, exitCode, twin>>

\* Lines 219-221.
WriteTail == <<Str("}],"), Str("\"edges\":[]"), Str("}")>>

\* Lines 219-223.
Finish ==
    /\ pc = "tail"
    /\ out' = InsertAll(out, WriteTail, Len(WriteTail))
    /\ exitCode' = 0
    /\ pc' = "exit"
    /\ UNCHANGED <<argv, i, filePath, deflection, angle, unit, shape, scale,
                   mesh, bounds, f, t, tri, w, err, twin>>

Next ==
    \/ ArgCheck
    \/ ParseOption
    \/ ReadFile
    \/ Transfer
    \/ Mesh
    \/ NextFace
    \/ Triangle
    \/ Append1
    \/ UpdateBounds
    \/ EmptyCheck
    \/ Write
    \/ WriteLists
    \/ Finish

Spec == Init /\ [][Next]_vars

(***************************************************************************)
(* What the claims read of a state.                                        *)
(***************************************************************************)
\* The face loop has ended.
ExtractionDone ==
    /\ ~shape.isNull
    /\ pc \in {"empty", "write", "positions", "normals", "indices", "tail", "exit"}
    /\ f = Len(shape.faces) + 1

\* Vertex n (from 1) of a mesh, and the normal stored with it.
EmittedVertex(m, n) ==
    Vec3(m.positions[3 * n - 2], m.positions[3 * n - 1], m.positions[3 * n])

EmittedNormal(m, n) ==
    Vec3(m.normals[3 * n - 2], m.normals[3 * n - 1], m.normals[3 * n])

\* The triangles of the faces that have a triangulation, face by face.
TrianglesOf(face) ==
    IF face.triangulation.isNull THEN <<>>
    ELSE [n \in 1..Len(face.triangulation.triangles) |->
            [face |-> face, triangle |-> face.triangulation.triangles[n]]]

RECURSIVE Traversal(_, _)
Traversal(faces, n) ==
    IF n > Len(faces) THEN <<>>
    ELSE TrianglesOf(faces[n]) \o Traversal(faces, n + 1)

\* Corner n of a triangle of the traversal: its node, moved to the face's
\* place, in thousandths of the unit.
ExpectedVertex(ft, n, u) ==
    LET node == ft.face.triangulation.nodes[ft.triangle[n]]
        k == IF u = "m" THEN 1000 ELSE 1
    IN  Vec3((node.x + ft.face.location.x) * k,
             (node.y + ft.face.location.y) * k,
             (node.z + ft.face.location.z) * k)

ZeroNormal == Vec3(Comp(0, 1), Comp(0, 1), Comp(0, 1))

\* The triangle of vertices 3k-2, 3k-1, 3k has no area.
ZeroArea(m, k) ==
    LET a == subtract(EmittedVertex(m, 3 * k - 1), EmittedVertex(m, 3 * k - 2))
        b == subtract(EmittedVertex(m, 3 * k), EmittedVertex(m, 3 * k - 2))
    IN  cross(a, b) = Vec3(0, 0, 0)

\* C1: after every completed appendVertex call, and so at the end of the
\* pipeline, positions and normals are equally long, three times as long as
\* indices.
C1_Lengths ==
    /\ Len(mesh.positions) = Len(mesh.normals)
    /\ Len(mesh.positions) = 3 * Len(mesh.indices)

\* An appendVertex call has completed in the middle of a triangle.
C1_Witness ==
    pc = "append" /\ tri.k = 2 /\ Len(mesh.indices) = 4

\* C2: indices[i] = i for every position i (counted from 0): a vertex is
\* never shared, equal points included.
C2_Sequential ==
    \A n \in 1..Len(mesh.indices) : mesh.indices[n] = n - 1

\* Two vertices at the same point were appended, each with its own index.
C2_Witness ==
    \E a, b \in 1..Len(mesh.indices) :
        /\ a < b
        /\ EmittedVertex(mesh, a) = EmittedVertex(mesh, b)
        /\ mesh.indices[a] # mesh.indices[b]

\* C3: once the face loop has ended every stored vertex lies within the
\* bounds on each axis.
C3_BoundsHold ==
    ExtractionDone =>
        \A n \in 1..Len(mesh.indices) :
            LET v == EmittedVertex(mesh, n)
            IN  /\ bounds.min.x <= v.x /\ v.x <= bounds.max.x
                /\ bounds.min.y <= v.y /\ v.y <= bounds.max.y
                /\ bounds.min.z <= v.z /\ v.z <= bounds.max.z

\* The loop has ended over two triangles whose second and third vertices
\* reach beyond the first.
C3_Witness ==
    /\ ExtractionDone
    /\ Len(mesh.indices) >= 6
    /\ \E n \in 1..Len(mesh.indices) :
         EmittedVertex(mesh, n).x > EmittedVertex(mesh, 1).x
    /\ \E n \in 1..Len(mesh.indices) :
         EmittedVertex(mesh, n).z < EmittedVertex(mesh, 1).z

\* C4: a run whose face loop ends without a vertex ends with exit code 1 and
\* the message "No mesh data extracted.", and writes nothing; bounds that are
\* written are no sentinels and have min <= max on every axis.
C4_EmptyMeshFails ==
    /\ (ExtractionDone /\ pc # "empty" /\ mesh.indices = <<>>) =>
           /\ pc = "exit"
           /\ exitCode = 1
           /\ err = <<"No mesh data extracted.\n">>
           /\ out = <<>>
    /\ out # <<>> =>
           /\ bounds.min.x <= bounds.max.x
           /\ bounds.min.y <= bounds.max.y
           /\ bounds.min.z <= bounds.max.z
           /\ \A c \in {bounds.min.x, bounds.min.y, bounds.min.z,
                        bounds.max.x, bounds.max.y, bounds.max.z} :
                c # DBL_MAX /\ c # -DBL_MAX

\* A shape with faces, none of them with a triangle, ended the run.
C4_Witness ==
    /\ ExtractionDone
    /\ pc = "exit"
    /\ Len(shape.faces) = 2
    /\ shape.faces[1].triangulation.isNull
    /\ ~shape.faces[2].triangulation.isNull
    /\ mesh.indices = <<>>
    /\ exitCode = 1

\* C6: the normal stored with a triangle of a reversed face is the negation,
\* component by component, of the normal of its three stored vertices taken
\* in their order v1, v2, v3, and these are the triangle's nodes in the
\* kernel's order.
C6_ReversedNegates ==
    ~shape.isNull =>
        \A k \in 1..(Len(mesh.indices) \div 3) :
            LET ft == Traversal(shape.faces, 1)[k]
                v1 == EmittedVertex(mesh, 3 * k - 2)
                v2 == EmittedVertex(mesh, 3 * k - 1)
                v3 == EmittedVertex(mesh, 3 * k)
                forward == normalize(cross(subtract(v2, v1), subtract(v3, v1)))
                n == EmittedNormal(mesh, 3 * k)
            IN  /\ v1 = ExpectedVertex(ft, 1, unit)
                /\ v2 = ExpectedVertex(ft, 2, unit)
                /\ v3 = ExpectedVertex(ft, 3, unit)
                /\ ft.face.orientation = "TopAbs_REVERSED" =>
                       /\ n.x.n = -forward.x.n /\ n.x.r = forward.x.r
                       /\ n.y.n = -forward.y.n /\ n.y.r = forward.y.r
                       /\ n.z.n = -forward.z.n /\ n.z.r = forward.z.r
                /\ ft.face.orientation # "TopAbs_REVERSED" => n = forward

\* A triangle with area of a reversed face is in the mesh.
C6_Witness ==
    /\ ~shape.isNull
    /\ \E k \in 1..(Len(mesh.indices) \div 3) :
         /\ Traversal(shape.faces, 1)[k].face.orientation = "TopAbs_REVERSED"
         /\ ~ZeroArea(mesh, k)
         /\ EmittedNormal(mesh, 3 * k) # ZeroNormal

\* C10: the vertices of the mesh are the corners v1, v2, v3 of the triangles
\* of the faces that have a triangulation, in face-then-triangle order, a
\* zero-area triangle (whose normal is the zero vector) included; the three
\* vertices of a triangle carry one normal; when the face loop has ended
\* indices is three times as long as that traversal.
C10_ThreePerTriangle ==
    ~shape.isNull =>
        LET all == Traversal(shape.faces, 1)
        IN  /\ Len(mesh.indices) <= 3 * Len(all)
            /\ \A n \in 1..Len(mesh.indices) :
                 LET k == (n - 1) \div 3 + 1
                 IN  /\ EmittedVertex(mesh, n) =
                            ExpectedVertex(all[k], ((n - 1) % 3) + 1, unit)
                     /\ EmittedNormal(mesh, n) = EmittedNormal(mesh, 3 * k - 2)
            /\ \A k \in 1..(Len(mesh.indices) \div 3) :
                 ZeroArea(mesh, k) => EmittedNormal(mesh, 3 * k) = ZeroNormal
            /\ ExtractionDone => Len(mesh.indices) = 3 * Len(all)

\* A face without a triangulation and a zero-area triangle went through the
\* face loop.
C10_Witness ==
    /\ ExtractionDone
    /\ exitCode = 0
    /\ \E n \in 1..Len(shape.faces) : shape.faces[n].triangulation.isNull
    /\ \E k \in 1..(Len(mesh.indices) \div 3) : ZeroArea(mesh, k)

\* The steps in their order: argument check and options, file read, shape
\* transfer, meshing, extraction, serialization.
StepOf(p) ==
    CASE p \in {"start", "options"} -> 0
      [] p = "read" -> 1
      [] p = "transfer" -> 2
      [] p = "mesh" -> 3
      [] p \in {"face", "triangle", "append", "bounds", "empty"} -> 4
      [] p \in {"write", "positions", "normals", "indices", "tail"} -> 5
      [] p = "exit" -> 6

\* The message of the check that can fail at a position.
MessageAt(p) ==
    CASE p = "start" ->
           "Usage: occt_step_export <file.step> [--deflection 0.2] [--angle 0.5] [--unit mm]\n"
      [] p = "read" -> "Failed to read STEP file.\n"
      [] p = "transfer" -> "STEP file has no shapes.\n"
      [] p = "mesh" -> "Meshing failed.\n"
      [] p = "empty" -> "No mesh data extracted.\n"
      [] OTHER -> "(none)"

C5_State ==
    /\ (pc = "exit") = (exitCode # -1)
    /\ exitCode \in {-1, 0, 1}
    /\ exitCode = 1 => out = <<>> /\ Len(err) = 1
    /\ out # <<>> => err = <<>> /\ exitCode \in {-1, 0}
    /\ exitCode = 0 => err = <<>> /\ ExtractionDone /\ mesh.indices # <<>>
    \* a failed check leaves what the later steps set as it was
    /\ err = <<MessageAt("start")>> => filePath = "" /\ i = 0 /\ shape.isNull
    /\ err = <<MessageAt("read")>> => shape.isNull /\ f = 0
    /\ err = <<MessageAt("transfer")>> => shape.isNull /\ f = 0
    /\ err = <<MessageAt("mesh")>> => ~shape.isNull /\ f = 0 /\ mesh = emptyMesh
    /\ err = <<MessageAt("empty")>> => ExtractionDone

C5_Step ==
    \* nothing runs after the return
    /\ pc # "exit"
    \* a step is followed by itself, by the next one or by the return
    /\ pc' # "exit" => StepOf(pc') \in {StepOf(pc), StepOf(pc) + 1}
    \* the return is that of a failed check, or follows the whole document
    /\ pc' = "exit" =>
         \/ exitCode' = 1 /\ err' = <<MessageAt(pc)>> /\ out' = <<>>
                          /\ MessageAt(pc) # "(none)"
         \/ exitCode' = 0 /\ pc = "tail" /\ err' = <<>>
    \* the checks whose outcome the state shows end the run when they fail
    /\ (pc = "start" /\ argc < 2) => exitCode' = 1
    /\ (pc = "transfer" /\ shape'.isNull) => exitCode' = 1
    /\ (pc = "empty" /\ mesh.positions = <<>>) => exitCode' = 1
    \* only serialization writes to standard output
    /\ out' # out => StepOf(pc) = 5

\* C5: the steps run in the order argument check, file read, shape transfer,
\* meshing, extraction, serialization; a failed check ends the run with exit
\* code 1 and its message before any later step runs; standard output is
\* written only in a run that ends with exit code 0.
C5_Order == []C5_State /\ [][C5_Step]_vars

\* The meshing check failed: the run ended there.
C5_Witness ==
    /\ pc = "exit"
    /\ exitCode = 1
    /\ err = <<"Meshing failed.\n">>
    /\ ~shape.isNull
    /\ Len(shape.faces) = 2

\* The items of a list with a comma between any two.
Joined(items) ==
    [j \in 1..(2 * Len(items) - 1) |->
        IF j % 2 = 1 THEN items[(j + 1) \div 2] ELSE Str(",")]

\* C9: a run that ends with exit code 0 has written one document: the
\* bounds (min, then max, three numbers each), a meshes list of the one mesh
\* "mesh-0" with positions, normals and indices in this order, each holding
\* every element of its sequence once, in order, with a comma between any
\* two, and an empty edges list.
C9_Document ==
    exitCode = 0 =>
        out =
            <<Str("{\"bounds\":{\"min\":[")>>
            \o Joined(<<Dbl(bounds.min.x), Dbl(bounds.min.y), Dbl(bounds.min.z)>>)
            \o <<Str("],\"max\":[")>>
            \o Joined(<<Dbl(bounds.max.x), Dbl(bounds.max.y), Dbl(bounds.max.z)>>)
            \o <<Str("]},\"meshes\":[{\"id\":\"mesh-0\",\"positions\":[")>>
            \o Joined([n \in 1..Len(mesh.positions) |-> Dbl(mesh.positions[n])])
            \o <<Str("],\"normals\":[")>>
            \o Joined([n \in 1..Len(mesh.normals) |-> Dbl(mesh.normals[n])])
            \o <<Str("],\"indices\":[")>>
            \o Joined([n \in 1..Len(mesh.indices) |-> UInt(mesh.indices[n])])
            \o <<Str("]}],\"edges\":[]}")>>

\* A document of two triangles was written.
C9_Witness ==
    /\ exitCode = 0
    /\ Len(mesh.indices) = 6
    /\ Len(out) > 20
    /\ \E a, b \in 1..Len(mesh.positions) :
         a # b /\ mesh.positions[a] = mesh.positions[b]

(***************************************************************************)
(* The options alone: every command line of up to MaxArgv option tokens.   *)
(***************************************************************************)
InitArgs ==
    /\ argv \in CommandLines(OptionTokens, MaxArgv)
    /\ InitRun
    /\ twin = NoTwin

NextArgs ==
    \/ ArgCheck
    \/ ParseOption

SpecArgs == InitArgs /\ [][NextArgs]_vars

\* The tokens that are numbers, and the numbers they are.  (A number out of
\* a double's range, as 1e999, is no value of a double.)
IsNumericText(token) == token \in {"0.3", " -5"}

NumericValue(token) ==
    CASE token = "0.3" -> Dec(3, -1)
      [] token = " -5" -> Dec(-5, 0)

Flags == {"--deflection", "--angle", "--unit"}

\* The value of the last flag that stands in flag position at or after
\* argv[j], is followed by a token, and whose token is a number; cur if there
\* is none.  The token after such a flag is its value, never a flag.
RECURSIVE LastValid(_, _, _, _)
LastValid(args, j, flag, cur) ==
    IF j > Len(args) THEN cur
    ELSE IF args[j] \in Flags /\ j + 1 <= Len(args)
    THEN LastValid(args, j + 2, flag,
                   IF args[j] = flag /\ IsNumericText(args[j + 1])
                   THEN NumericValue(args[j + 1]) ELSE cur)
    ELSE LastValid(args, j + 1, flag, cur)

\* C7: the options never end the run nor report an error; when they are
\* read, deflection (angle) is the value of the last --deflection (--angle)
\* in flag position whose following token is a number, and 0.2 (0.5) without
\* one: a value token that is no number leaves the parameter as it was.
C7_LastValidWins ==
    /\ pc \in {"options", "read"} => err = <<>> /\ exitCode = -1
    /\ pc = "read" =>
         /\ deflection = LastValid(argv, 2, "--deflection", Dec(2, -1))
         /\ angle = LastValid(argv, 2, "--angle", Dec(5, -1))

(***************************************************************************)
(* binary64.  A double is [neg, m, e], standing for (-1)^neg * m * 2^e     *)
(* with m odd and below 2^53 (0 is m = 0, e = 0).  m is a sequence of      *)
(* 13-bit limbs, the lowest first and the highest not 0.  The exponents of *)
(* the model stay far inside a double's range.                             *)
(***************************************************************************)
Base == 2 ^ 13

RECURSIVE Pow2(_)
Pow2(n) == IF n = 0 THEN 1 ELSE 2 * Pow2(n - 1)

RECURSIVE LimbsOf(_)
LimbsOf(n) == IF n = 0 THEN <<>> ELSE <<n % Base>> \o LimbsOf(n \div Base)

Limb(a, j) == IF j >= 1 /\ j <= Len(a) THEN a[j] ELSE 0

\* a without its highest limbs that are 0.
Norm(a) ==
    LET used == {j \in 1..Len(a) : a[j] # 0}
    IN  IF used = {} THEN <<>>
        ELSE SubSeq(a, 1, CHOOSE j \in used : \A o \in used : o <= j)

\* The number whose limb j is cols[j], each possibly above the base.
RECURSIVE Carried(_, _, _)
Carried(cols, j, c) ==
    IF j > Len(cols) THEN LimbsOf(c)
    ELSE <<(cols[j] + c) % Base>> \o Carried(cols, j + 1, (cols[j] + c) \div Base)

RECURSIVE ColumnSum(_, _, _, _)
ColumnSum(a, b, c, j) ==
    IF j > Len(a) THEN 0
    ELSE Limb(a, j) * Limb(b, c + 1 - j) + ColumnSum(a, b, c, j + 1)

BMul(a, b) ==
    IF a = <<>> \/ b = <<>> THEN <<>>
    ELSE Norm(Carried([c \in 1..(Len(a) + Len(b) - 1) |-> ColumnSum(a, b, c, 1)],
                      1, 0))

BAdd(a, b) ==
    Norm(Carried([j \in 1..Max(Len(a), Len(b)) |-> Limb(a, j) + Limb(b, j)], 1, 0))

\* a - b for a >= b.
RECURSIVE Borrowed(_, _, _, _)
Borrowed(a, b, j, c) ==
    IF j > Len(a) THEN <<>>
    ELSE LET d == a[j] - Limb(b, j) - c
         IN  <<IF d < 0 THEN d + Base ELSE d>>
             \o Borrowed(a, b, j + 1, IF d < 0 THEN 1 ELSE 0)

BSub(a, b) == Norm(Borrowed(a, b, 1, 0))

BLessEq(a, b) ==
    IF Len(a) # Len(b) THEN Len(a) < Len(b)
    ELSE LET differ == {j \in 1..Len(a) : a[j] # b[j]}
         IN  \/ differ = {}
             \/ LET top == CHOOSE j \in differ : \A o \in differ : o <= j
                IN  a[top] < b[top]

\* Bit j (from 0) of a, and the number of bits of a.
Bit(a, j) == (Limb(a, j \div 13 + 1) \div Pow2(j % 13)) % 2

BitLen(a) ==
    IF a = <<>> THEN 0
    ELSE LET high == {j \in 0..12 : Bit(a, 13 * (Len(a) - 1) + j) = 1}
         IN  13 * (Len(a) - 1) + 1 + CHOOSE j \in high : \A o \in high : o <= j

\* a / 2^n without its fraction, and a * 2^n.
ShiftRight(a, n) ==
    LET q == n \div 13
        r == n % 13
    IN  Norm([k \in 1..Len(a) |->
                 Limb(a, k + q) \div Pow2(r)
                 + (Limb(a, k + q + 1) % Pow2(r)) * Pow2(13 - r)])

ShiftLeft(a, n) ==
    IF a = <<>> THEN <<>>
    ELSE [k \in 1..(n \div 13) |-> 0] \o BMul(a, <<Pow2(n % 13)>>)

\* The nearest number of 53 bits to n * 2^-sh, ties to the even one, with the
\* sh that makes it so.
Round53(n) ==
    IF BitLen(n) <= 53 THEN [m |-> n, sh |-> 0]
    ELSE LET sh == BitLen(n) - 53
             q == ShiftRight(n, sh)
             half == Bit(n, sh - 1) = 1
             more == \E j \in 0..(sh - 2) : Bit(n, j) = 1
             odd == Bit(q, 0) = 1
         IN  [m |-> IF half /\ (more \/ odd) THEN BAdd(q, <<1>>) ELSE q,
              sh |-> sh]

Zero64 == [neg |-> FALSE, m |-> <<>>, e |-> 0]

Double(neg, m, e) ==
    IF m = <<>> THEN Zero64
    ELSE LET ones == {j \in 0..(13 * Len(m) - 1) : Bit(m, j) = 1}
             low == CHOOSE j \in ones : \A o \in ones : j <= o
         IN  [neg |-> neg, m |-> ShiftRight(m, low), e |-> e + low]

\* The double that holds the integer n.
FromInt(n) == Double(n < 0, LimbsOf(Abs(n)), 0)

\* The double of a literal of the source: 1.0, and 0.001, which is
\* 0x1.0624dd2f1a9fcp-10.
Binary64(dec) ==
    CASE dec = Dec(1, 0) -> FromInt(1)
      [] dec = Dec(1, -3) -> Double(FALSE, <<2556, 6029, 4980, 196, 1>>, -62)

\* a * b in binary64: the exact product, rounded to nearest.
DMul(a, b) ==
    LET r == Round53(BMul(a.m, b.m))
    IN  Double(a.neg # b.neg, r.m, a.e + b.e + r.sh)

\* p.X() * scale and so on (lines 163-165), in binary64.
Scaled64(p, s) ==
    Vec3(DMul(FromInt(p.x), Binary64(s)), DMul(FromInt(p.y), Binary64(s)),
         DMul(FromInt(p.z), Binary64(s)))

\* Lines 159-165, in binary64.
Vertices64(face, triangle, s) ==
    [n \in 1..3 |->
        Scaled64(Transformed(face.triangulation.nodes[triangle[n]],
                             face.location), s)]

\* Lines 153-181 for one triangle: the mesh after it.  The positions are in
\* binary64, the normals as in Spec.
appendTriangle(m, face, triangle, s) ==
    LET v == Vertices64(face, triangle, s)
        normal == FaceNormal(face, Vertices(face, triangle, s))
    IN  appendVertex(appendVertex(appendVertex(m, v[1], normal), v[2], normal),
                     v[3], normal)

(***************************************************************************)
(* Two runs on the same faces, one with --unit m and one with another unit *)
(* or none, from the start of the face loop on, triangle by triangle.      *)
(***************************************************************************)
OtherUnits == {"mm", "abc", ""}

mainVars == <<pc, argv, i, filePath, deflection, angle, unit, shape, scale,
              mesh, bounds, f, t, tri, w, out, err, exitCode>>

\* Lines 135-141 of both runs.
InitUnits ==
    /\ argv = <<"model.step">>
    /\ InitRun
    /\ \E faces \in SeqsUpTo(FaceCatalog, MaxFaces), u \in OtherUnits :
         twin = [on |-> TRUE, faces |-> faces, f |-> 1, t |-> 1,
                 unit |-> <<"m", u>>,
                 scale |-> <<unitScale("m"), unitScale(u)>>,
                 mesh |-> <<emptyMesh, emptyMesh>>]

\* Lines 141-147 of both runs.
TwinFace ==
    /\ twin.on
    /\ twin.f <= Len(twin.faces)
    /\ LET face == twin.faces[twin.f]
       IN  IF face.triangulation.isNull THEN TRUE
           ELSE twin.t > Len(face.triangulation.triangles)
    /\ twin' = [twin EXCEPT !.f = twin.f + 1, !.t = 1]
    /\ UNCHANGED mainVars

\* Lines 153-181 of both runs.
TwinTriangle ==
    /\ twin.on
    /\ twin.f <= Len(twin.faces)
    /\ LET face == twin.faces[twin.f]
       IN  /\ ~face.triangulation.isNull
           /\ twin.t <= Len(face.triangulation.triangles)
           /\ twin' =
                [twin EXCEPT
                   !.t = twin.t + 1,
                   !.mesh = [r \in 1..2 |->
                               appendTriangle(twin.mesh[r], face,
                                              face.triangulation.triangles[twin.t],
                                              twin.scale[r])]]
    /\ UNCHANGED mainVars

NextUnits ==
    \/ TwinFace
    \/ TwinTriangle

SpecUnits == InitUnits /\ [][NextUnits]_vars

\* Coordinate n of the vertices of the traversal as the kernel gives it: the
\* node, moved to the face's place.
RawCoordinate(faces, n) ==
    LET ft == Traversal(faces, 1)[(n - 1) \div 9 + 1]
        node == ft.face.triangulation.nodes[ft.triangle[((n - 1) % 9) \div 3 + 1]]
        axis == (n - 1) % 3
    IN  IF axis = 0 THEN node.x + ft.face.location.x
        ELSE IF axis = 1 THEN node.y + ft.face.location.y
        ELSE node.z + ft.face.location.z

\* |1000 * b - a| <= 2^-51 * |a|, as numbers.
WithinRounding(a, b) ==
    IF a = Zero64 THEN b = Zero64
    ELSE /\ b # Zero64
         /\ a.neg = b.neg
         /\ LET low == Min(a.e, b.e)
                thousandfold == ShiftLeft(BMul(b.m, LimbsOf(1000)), b.e - low)
                whole == ShiftLeft(a.m, a.e - low)
                gap == IF BLessEq(thousandfold, whole)
                       THEN BSub(whole, thousandfold)
                       ELSE BSub(thousandfold, whole)
            IN  BLessEq(ShiftLeft(gap, 51), whole)

\* The double taken for 0.001 is the nearest one to 1/1000: with m * 2^-62
\* its value, |1000 * m - 2^62| <= 500.
MilliIsNearest ==
    LET d == Binary64(Dec(1, -3))
        m == BMul(ShiftLeft(d.m, d.e + 62), LimbsOf(1000))
        one == ShiftLeft(<<1>>, 62)
        gap == IF BLessEq(m, one) THEN BSub(one, m) ELSE BSub(m, one)
    IN  /\ ~d.neg
        /\ BitLen(ShiftLeft(d.m, d.e + 62)) = 53
        /\ BLessEq(gap, LimbsOf(500))

C8_SameTopology ==
    /\ twin.scale[1] = Dec(1, 0)
    /\ twin.scale[2] = Dec(1, -3)
    /\ Len(twin.mesh[1].positions) = Len(twin.mesh[2].positions)
    /\ twin.mesh[1].indices = twin.mesh[2].indices

\* C8 as claimed: the scale is 1.0 for "m" and 0.001 for any other unit; the
\* two runs have the same number of vertices and the same indices, and every
\* coordinate of the "m" run is 1000 times that of the other run (the
\* product taken as the program would take it, in double precision; an exact
\* product that were equal would give the same).
C8_ExactlyThousandfold ==
    twin.on =>
        /\ C8_SameTopology
        /\ \A n \in 1..Len(twin.mesh[1].positions) :
             twin.mesh[1].positions[n] =
                 DMul(FromInt(1000), twin.mesh[2].positions[n])

\* C8, amended: the scale is 1.0 for "m" and 0.001 for any other unit; the
\* two runs have the same number of vertices and the same indices; a
\* coordinate of the "m" run is the kernel's coordinate, and 1000 times the
\* coordinate of the other run differs from it by at most 2^-51 of it.
C8_ThousandfoldRounded ==
    twin.on =>
        /\ C8_SameTopology
        /\ MilliIsNearest
        /\ \A n \in 1..Len(twin.mesh[1].positions) :
             /\ twin.mesh[1].positions[n] = FromInt(RawCoordinate(twin.faces, n))
             /\ WithinRounding(twin.mesh[1].positions[n],
                               twin.mesh[2].positions[n])

\* Both runs went through two faces, one of them with the coordinate 9, the
\* second run with a unit that is not known.
C8_Witness ==
    /\ twin.on
    /\ twin.unit[2] = "abc"
    /\ twin.f > Len(twin.faces)
    /\ Len(twin.mesh[1].indices) >= 6
    /\ \E n \in 1..Len(twin.mesh[1].positions) :
         /\ twin.mesh[1].positions[n] = FromInt(9)
         /\ twin.mesh[2].positions[n] # Zero64

====
